---- MODULE Spec2Model ----
(***************************************************************************)
(* A model of stm32/COLDCARD_MK4/psramdisk.c: a RAM disk in PSRAM that is  *)
(* reachable by the USB host as a SCSI mass-storage unit and by the        *)
(* interpreter as a block device.                                          *)
(*                                                                         *)
(* The region is kept block by block.  Every copy or fill of the file      *)
(* starts at &PSRAM_BASE[blk * BLOCK_SIZE] and has a length that is a      *)
(* multiple of BLOCK_SIZE, so a block is always written whole; the content *)
(* of a block is <<"fill", v, 0>> (512 bytes of value v) or                *)
(* <<"buf", p, k>> (bytes k*512 .. k*512+511 of the caller's buffer p).    *)
(* psram maps the blocks that differ from the wipe pattern to their        *)
(* content; every other block holds the wipe pattern.                      *)
(***************************************************************************)
EXTENDS Integers, Sequences, FiniteSets

\* ------------------------------------------------------------ constants

BLOCK_SIZE == 512

BLOCK_COUNT == 16384

FLAGS_STARTED == 1

FLAGS_READONLY == 2

psram_msc_lu_num == 1

MP_EIO == 5

WIPE_BYTE == 33

ERASE_BYTE == 255

STANDARD_INQUIRY_DATA_LEN == 36

FR_OK == 0

FR_DISK_ERR == 1

FR_NOT_ENOUGH_CORE == 17

\* block_to_ptr's NULL; any other result is a byte offset from PSRAM_BASE, a
\* multiple of BLOCK_SIZE
NULL == -1

\* ------------------------------------------------------------ bounds

\* logical unit numbers 0..MaxLun are tried
MaxLun == 1

\* caller buffers 1..NumBufs hold distinct data
NumBufs == 2

\* ------------------------------------------------------------ C integers
\* A uint32_t is held as its 32-bit pattern read as a signed integer (values from
\* 2^31 up are negative), so that the conversion of the interpreter's integers
\* keeps the pattern and the arithmetic below wraps as the machine's does.

U8(x) == x % 256

U16(x) == x % 65536

Min(a, b) == IF a < b THEN a ELSE b

Lo16(a) == a % 65536

Hi16(a) == (a \div 65536) % 65536

FromHalves(hi, lo) == (IF hi >= 32768 THEN hi - 65536 ELSE hi) * 65536 + lo

\* a + b in 32 bits
UAdd(a, b) ==
    LET lo == Lo16(a) + Lo16(b)
        hi == Hi16(a) + Hi16(b) + lo \div 65536
    IN  FromHalves(hi % 65536, lo % 65536)

\* a * b in 32 bits, for 0 <= b < 32768
UMul(a, b) ==
    LET lo == Lo16(a) * b
        hi == Hi16(a) * b + lo \div 65536
    IN  FromHalves(hi % 65536, lo % 65536)

\* a >= b, unsigned
UGe(a, b) == IF (a < 0) = (b < 0) THEN a >= b ELSE a < 0

RECURSIVE BitsAnd(_, _)
BitsAnd(a, b) ==
    IF a = 0 \/ b = 0 THEN 0
    ELSE (IF a % 2 = 1 /\ b % 2 = 1 THEN 1 ELSE 0) + 2 * BitsAnd(a \div 2, b \div 2)

BitsOr(a, b) == a + b - BitsAnd(a, b)

\* ~x in 16 bits
BitsNot16(x) == 65535 - x

Shl(x, n) == x * (2 ^ n)

\* ------------------------------------------------------------ the region

Fill(v) == <<"fill", v, 0>>

BufBlock(p, k) == <<"buf", p, k>>

\* byte i of caller buffer p (buffer 0 is the filesystem library's)
BufByte(p, i) == (32 * p + (i \div BLOCK_SIZE) + i) % 256

\* byte j of a block with content c
ByteOf(c, j) == IF c[1] = "fill" THEN c[2] ELSE BufByte(c[2], c[3] * BLOCK_SIZE + j)

ReadBlock(m, b) == IF b \in DOMAIN m THEN m[b] ELSE Fill(WIPE_BYTE)

\* the byte of the region at byte offset off
RegionByte(m, off) == ByteOf(ReadBlock(m, off \div BLOCK_SIZE), off % BLOCK_SIZE)

\* whether the byte span [off, off + len) leaves the region
Outside(off, len) == len # 0 /\ (off < 0 \/ len < 0 \/ len > BLOCK_COUNT * BLOCK_SIZE - off)

\* the blocks of the region inside the byte span [off, off + len)
Touched(off, len) ==
    IF len = 0 THEN {}
    ELSE (off \div BLOCK_SIZE) ..
         (IF Outside(off, len) THEN BLOCK_COUNT - 1 ELSE (off + len - 1) \div BLOCK_SIZE)

\* memcpy(PSRAM_BASE + off, buffer p, len): the part that lands in the region
MemcpyIn(m, off, p, len) ==
    [b \in DOMAIN m \cup Touched(off, len) |->
        IF b \in Touched(off, len) THEN BufBlock(p, b - off \div BLOCK_SIZE) ELSE m[b]]

\* memcpy(dest, PSRAM_BASE + off, len): what dest receives from the region
MemcpyOut(m, off, len) ==
    [i \in 1 .. Cardinality(Touched(off, len)) |-> ReadBlock(m, off \div BLOCK_SIZE + i - 1)]

\* Memset with the fill value dropped: the span is zeroed
Memset_zero(m, off, v, len) ==
    [b \in DOMAIN m \cup Touched(off, len) |->
        IF b \in Touched(off, len) THEN Fill(0) ELSE m[b]]

\* memset(PSRAM_BASE + off, v, len)
Memset(m, off, v, len) ==
    [b \in DOMAIN m \cup Touched(off, len) |->
        IF b \in Touched(off, len) THEN Fill(v) ELSE m[b]]

\* the region right after memset(PSRAM_BASE, 0x21, BLOCK_SIZE * BLOCK_COUNT)
Wiped == [b \in {} |-> Fill(WIPE_BYTE)]

\* ------------------------------------------------------------ the validator

\* block_to_ptr with > for >= in the second comparison
block_to_ptr_gt(blk, num_blk) ==
    IF UGe(blk, BLOCK_COUNT) THEN NULL
    ELSE IF UGe(UAdd(blk, UMul(num_blk, BLOCK_SIZE)), BLOCK_COUNT + 1) THEN NULL
    ELSE UMul(blk, BLOCK_SIZE)

\* block_to_ptr with the count taken in blocks: no multiplication by BLOCK_SIZE
block_to_ptr_blocks(blk, num_blk) ==
    IF UGe(blk, BLOCK_COUNT) THEN NULL
    ELSE IF UGe(UAdd(blk, num_blk), BLOCK_COUNT) THEN NULL
    ELSE UMul(blk, BLOCK_SIZE)

block_to_ptr(blk, num_blk) ==
    IF UGe(blk, BLOCK_COUNT) THEN NULL
    ELSE IF UGe(UAdd(blk, UMul(num_blk, BLOCK_SIZE)), BLOCK_COUNT) THEN NULL
    ELSE UMul(blk, BLOCK_SIZE)

\* ------------------------------------------------------------ the flags

lu_flag_set(f, lun, flag) == U16(BitsOr(f, Shl(flag, lun * 2)))

\* lu_flag_clr without the ~
lu_flag_clr_noinvert(f, lun, flag) == BitsAnd(f, U16(Shl(flag, lun * 2)))

lu_flag_clr(f, lun, flag) == BitsAnd(f, BitsNot16(U16(Shl(flag, lun * 2))))

lu_flag_is_set(f, lun, flag) == BitsAnd(f, Shl(flag, lun * 2)) # 0

\* ------------------------------------------------------------ state

VARIABLES
    psram_msc_lu_flags,  \* the flags word
    psram,               \* the region: block |-> content, where not the wipe pattern
    last,                \* the call that ended last: arguments, result, span touched
    started_by,          \* "none", or what the last init(0) / start_stop(0, s) asked for
    written              \* the last successful write (if the region has not changed since)

vars == <<psram_msc_lu_flags, psram, last, started_by, written>>

\* a call record: blk, n16 and ptr are block_to_ptr's arguments and result where
\* checked says it was called, off and len the byte span of the region the copy or
\* fill covered, out what the caller received, map the link map the library left and
\* printed what went to the console; status is "ret" (returned ret), "none"
\* (returned mp_const_none), "raise" (raised ValueError) or "fault" (an access
\* outside the region stopped the CPU)
Call == [fn |-> "", lun |-> 0, blk |-> 0, num |-> 0, n16 |-> 0, buf |-> 0,
         ptr |-> NULL, status |-> "none", ret |-> 0, out |-> <<>>,
         off |-> 0, len |-> 0, arg |-> <<>>, checked |-> FALSE,
         opened |-> FALSE, closed |-> FALSE, map |-> <<>>, printed |-> <<>>]

NoWrite == <<>>

Running == last.status # "fault"

\* what a handler leaves behind: the flags word, the region, the call record
Res(f, m, c) == [flags |-> f, mem |-> m, call |-> c]

\* ------------------------------------------------------------ SCSI handlers

\* psram_msc_Init setting the READONLY flag where it clears it
psram_msc_Init_setro(f, m, lun_in) ==
    LET c == [Call EXCEPT !.fn = "psram_msc_Init", !.lun = lun_in, !.status = "ret"]
    IN  IF lun_in # 0 THEN Res(f, m, [c EXCEPT !.ret = 0])
        ELSE Res(lu_flag_set(lu_flag_set(f, 0, FLAGS_STARTED), 0, FLAGS_READONLY), m,
                 [c EXCEPT !.ret = 0])

psram_msc_Init(f, m, lun_in) ==
    LET c == [Call EXCEPT !.fn = "psram_msc_Init", !.lun = lun_in, !.status = "ret"]
    IN  IF lun_in # 0 THEN Res(f, m, [c EXCEPT !.ret = 0])
        ELSE Res(lu_flag_clr(lu_flag_set(f, 0, FLAGS_STARTED), 0, FLAGS_READONLY), m,
                 [c EXCEPT !.ret = 0])

psram_msc_vpd00 == <<0, 0, 0, 2, 0, 131>>

psram_msc_vpd83 == <<0, 131, 0, 0>>

psram_msc_inquiry_data ==
    <<0, 128, 2, 2, STANDARD_INQUIRY_DATA_LEN - 5, 0, 0, 0,
      67, 111, 105, 110, 107, 105, 116, 101,
      67, 79, 76, 68, 67, 65, 82, 68,
      32, 32, 32, 32, 32, 32, 32, 32,
      52, 46, 48, 48>>

\* params is the command block: params[i + 1] here is the code's params[i]
psram_msc_Inquiry(f, m, lun, params) ==
    LET c == [Call EXCEPT !.fn = "psram_msc_Inquiry", !.lun = lun, !.arg = params,
                          !.status = "ret"]
    IN  IF BitsAnd(params[2], 1) # 0
        THEN LET page_code == params[3]
             IN  IF page_code = 0
                 THEN Res(f, m, [c EXCEPT !.out = psram_msc_vpd00, !.ret = Len(psram_msc_vpd00)])
                 ELSE IF page_code = 131
                 THEN Res(f, m, [c EXCEPT !.out = psram_msc_vpd83, !.ret = Len(psram_msc_vpd83)])
                 ELSE Res(f, m, [c EXCEPT !.ret = -1])
        ELSE IF lun >= psram_msc_lu_num THEN Res(f, m, [c EXCEPT !.ret = -1])
        ELSE LET alloc_len == U8(BitsOr(Shl(params[4], 8), params[5]))
                 len == Min(Len(psram_msc_inquiry_data), alloc_len)
             IN  Res(f, m, [c EXCEPT !.out = SubSeq(psram_msc_inquiry_data, 1, len),
                                     !.ret = len])

\* psram_msc_GetCapacity reporting the last block address for the block count
psram_msc_GetCapacity_lastlba(f, m, lun) ==
    Res(f, m, [Call EXCEPT !.fn = "psram_msc_GetCapacity", !.lun = lun, !.status = "ret",
                           !.out = <<BLOCK_COUNT - 1, U16(BLOCK_SIZE)>>, !.ret = 0])

psram_msc_GetCapacity(f, m, lun) ==
    Res(f, m, [Call EXCEPT !.fn = "psram_msc_GetCapacity", !.lun = lun, !.status = "ret",
                           !.out = <<BLOCK_COUNT, U16(BLOCK_SIZE)>>, !.ret = 0])

psram_msc_IsReady(f, m, lun) ==
    LET c == [Call EXCEPT !.fn = "psram_msc_IsReady", !.lun = lun, !.status = "ret"]
    IN  IF lun >= psram_msc_lu_num THEN Res(f, m, [c EXCEPT !.ret = -1])
        ELSE Res(f, m, [c EXCEPT !.ret = IF lu_flag_is_set(f, lun, FLAGS_STARTED) THEN 0 ELSE -1])

psram_msc_IsWriteProtected(f, m, lun) ==
    LET c == [Call EXCEPT !.fn = "psram_msc_IsWriteProtected", !.lun = lun, !.status = "ret"]
    IN  IF lun >= psram_msc_lu_num THEN Res(f, m, [c EXCEPT !.ret = -1])
        ELSE Res(f, m, [c EXCEPT !.ret = IF lu_flag_is_set(f, lun, FLAGS_READONLY) THEN 1 ELSE 0])

\* psram_msc_StartStopUnit setting both flags of the unit on start
psram_msc_StartStopUnit_both(f, m, lun, started) ==
    LET c == [Call EXCEPT !.fn = "psram_msc_StartStopUnit", !.lun = lun, !.arg = <<started>>,
                          !.status = "ret"]
    IN  IF lun >= psram_msc_lu_num THEN Res(f, m, [c EXCEPT !.ret = -1])
        ELSE IF started # 0
        THEN Res(lu_flag_set(f, lun, FLAGS_STARTED + FLAGS_READONLY), m, [c EXCEPT !.ret = 0])
        ELSE Res(lu_flag_clr(f, lun, FLAGS_STARTED), m, [c EXCEPT !.ret = 0])

psram_msc_StartStopUnit(f, m, lun, started) ==
    LET c == [Call EXCEPT !.fn = "psram_msc_StartStopUnit", !.lun = lun, !.arg = <<started>>,
                          !.status = "ret"]
    IN  IF lun >= psram_msc_lu_num THEN Res(f, m, [c EXCEPT !.ret = -1])
        ELSE IF started # 0
        THEN Res(lu_flag_set(f, lun, FLAGS_STARTED), m, [c EXCEPT !.ret = 0])
        ELSE Res(lu_flag_clr(f, lun, FLAGS_STARTED), m, [c EXCEPT !.ret = 0])

\* psram_msc_PreventAllowMediumRemoval stopping the unit when removal is allowed
psram_msc_PreventAllowMediumRemoval_stop(f, m, lun, param) ==
    Res(IF param = 0 THEN lu_flag_clr(f, 0, FLAGS_STARTED) ELSE f, m,
        [Call EXCEPT !.fn = "psram_msc_PreventAllowMediumRemoval", !.lun = lun,
                     !.arg = <<param>>, !.status = "ret", !.ret = 0])

psram_msc_PreventAllowMediumRemoval(f, m, lun, param) ==
    Res(f, m, [Call EXCEPT !.fn = "psram_msc_PreventAllowMediumRemoval", !.lun = lun,
                           !.arg = <<param>>, !.status = "ret", !.ret = 0])

psram_msc_Read(f, m, lun, blk_addr, blk_len) ==
    LET c == [Call EXCEPT !.fn = "psram_msc_Read", !.lun = lun, !.blk = blk_addr,
                          !.num = blk_len, !.status = "ret"]
    IN  IF lun >= psram_msc_lu_num THEN Res(f, m, [c EXCEPT !.ret = -1])
        ELSE LET ptr == block_to_ptr(blk_addr, blk_len)
                 n == UMul(blk_len, BLOCK_SIZE)
             IN  IF ptr = NULL
                 THEN Res(f, m, [c EXCEPT !.n16 = blk_len, !.checked = TRUE,
                                          !.ptr = ptr, !.ret = -1])
                 ELSE Res(f, m, [c EXCEPT !.n16 = blk_len, !.checked = TRUE,
                                          !.ptr = ptr, !.off = ptr, !.len = n,
                                          !.out = MemcpyOut(m, ptr, n), !.ret = 0])

\* psram_msc_Write with the unit check after the copy
psram_msc_Write_latecheck(f, m, lun, buf, blk_addr, blk_len) ==
    LET c == [Call EXCEPT !.fn = "psram_msc_Write", !.lun = lun, !.buf = buf, !.blk = blk_addr,
                          !.num = blk_len, !.status = "ret"]
        ptr == block_to_ptr(blk_addr, blk_len)
        n == UMul(blk_len, BLOCK_SIZE)
    IN  IF ptr = NULL
        THEN Res(f, m, [c EXCEPT !.n16 = blk_len, !.checked = TRUE, !.ptr = ptr, !.ret = -1])
        ELSE Res(f, MemcpyIn(m, ptr, buf, n),
                 [c EXCEPT !.n16 = blk_len, !.checked = TRUE, !.ptr = ptr, !.off = ptr,
                           !.len = n, !.ret = IF lun >= psram_msc_lu_num THEN -1 ELSE 0])

\* psram_msc_Write refusing while the unit is stopped
psram_msc_Write_ifstarted(f, m, lun, buf, blk_addr, blk_len) ==
    LET c == [Call EXCEPT !.fn = "psram_msc_Write", !.lun = lun, !.buf = buf, !.blk = blk_addr,
                          !.num = blk_len, !.status = "ret"]
    IN  IF lun >= psram_msc_lu_num THEN Res(f, m, [c EXCEPT !.ret = -1])
        ELSE IF ~lu_flag_is_set(f, lun, FLAGS_STARTED) THEN Res(f, m, [c EXCEPT !.ret = -1])
        ELSE LET ptr == block_to_ptr(blk_addr, blk_len)
                 n == UMul(blk_len, BLOCK_SIZE)
             IN  IF ptr = NULL
                 THEN Res(f, m, [c EXCEPT !.n16 = blk_len, !.checked = TRUE,
                                          !.ptr = ptr, !.ret = -1])
                 ELSE Res(f, MemcpyIn(m, ptr, buf, n),
                          [c EXCEPT !.n16 = blk_len, !.checked = TRUE,
                                    !.ptr = ptr, !.off = ptr, !.len = n,
                                    !.ret = 0])

psram_msc_Write(f, m, lun, buf, blk_addr, blk_len) ==
    LET c == [Call EXCEPT !.fn = "psram_msc_Write", !.lun = lun, !.buf = buf, !.blk = blk_addr,
                          !.num = blk_len, !.status = "ret"]
    IN  IF lun >= psram_msc_lu_num THEN Res(f, m, [c EXCEPT !.ret = -1])
        ELSE LET ptr == block_to_ptr(blk_addr, blk_len)
                 n == UMul(blk_len, BLOCK_SIZE)
             IN  IF ptr = NULL
                 THEN Res(f, m, [c EXCEPT !.n16 = blk_len, !.checked = TRUE,
                                          !.ptr = ptr, !.ret = -1])
                 ELSE Res(f, MemcpyIn(m, ptr, buf, n),
                          [c EXCEPT !.n16 = blk_len, !.checked = TRUE,
                                    !.ptr = ptr, !.off = ptr, !.len = n,
                                    !.ret = 0])

psram_msc_GetMaxLun(f, m) ==
    Res(f, m, [Call EXCEPT !.fn = "psram_msc_GetMaxLun", !.status = "ret",
                           !.ret = psram_msc_lu_num - 1])

\* ------------------------------------------------------------ block device

MP_BLOCKDEV_IOCTL_INIT == 1

MP_BLOCKDEV_IOCTL_DEINIT == 2

MP_BLOCKDEV_IOCTL_SYNC == 3

MP_BLOCKDEV_IOCTL_BLOCK_COUNT == 4

MP_BLOCKDEV_IOCTL_BLOCK_SIZE == 5

MP_BLOCKDEV_IOCTL_BLOCK_ERASE == 6

\* psram_readblocks without the comparison of blk_len * BLOCK_SIZE with the length
psram_readblocks_norem(f, m, block_num_in, buflen) ==
    LET block_num == block_num_in
        blk_len == U16(buflen \div BLOCK_SIZE)
        c == [Call EXCEPT !.fn = "psram_readblocks", !.blk = block_num,
                          !.num = buflen \div BLOCK_SIZE, !.arg = <<buflen>>]
    IN  IF blk_len < 1 THEN Res(f, m, [c EXCEPT !.status = "raise"])
        ELSE LET ptr == block_to_ptr(block_num, blk_len)
             IN  IF ptr = NULL
                 THEN Res(f, m, [c EXCEPT !.n16 = blk_len, !.checked = TRUE,
                                          !.ptr = ptr, !.status = "raise"])
                 ELSE Res(f, m, [c EXCEPT !.n16 = blk_len, !.checked = TRUE,
                                          !.ptr = ptr, !.off = ptr,
                                          !.len = buflen, !.out = MemcpyOut(m, ptr, buflen),
                                          !.status = "ret", !.ret = 0])

\* block_num_in is the interpreter's integer, buflen is bufinfo.len
psram_readblocks(f, m, block_num_in, buflen) ==
    LET block_num == block_num_in
        blk_len == U16(buflen \div BLOCK_SIZE)
        c == [Call EXCEPT !.fn = "psram_readblocks", !.blk = block_num,
                          !.num = buflen \div BLOCK_SIZE, !.arg = <<buflen>>]
    IN  IF blk_len < 1 THEN Res(f, m, [c EXCEPT !.status = "raise"])
        ELSE IF UMul(blk_len, BLOCK_SIZE) # buflen THEN Res(f, m, [c EXCEPT !.status = "raise"])
        ELSE LET ptr == block_to_ptr(block_num, blk_len)
             IN  IF ptr = NULL
                 THEN Res(f, m, [c EXCEPT !.n16 = blk_len, !.checked = TRUE,
                                          !.ptr = ptr, !.status = "raise"])
                 ELSE Res(f, m, [c EXCEPT !.n16 = blk_len, !.checked = TRUE,
                                          !.ptr = ptr, !.off = ptr,
                                          !.len = buflen, !.out = MemcpyOut(m, ptr, buflen),
                                          !.status = "ret", !.ret = 0])

\* psram_writeblocks copying one block whatever the buffer holds
psram_writeblocks_oneblock(f, m, block_num_in, buf, buflen) ==
    LET block_num == block_num_in
        blk_len == U16(buflen \div BLOCK_SIZE)
        c == [Call EXCEPT !.fn = "psram_writeblocks", !.blk = block_num, !.buf = buf,
                          !.num = buflen \div BLOCK_SIZE, !.arg = <<buflen>>]
    IN  IF blk_len < 1 THEN Res(f, m, [c EXCEPT !.status = "raise"])
        ELSE IF UMul(blk_len, BLOCK_SIZE) # buflen THEN Res(f, m, [c EXCEPT !.status = "raise"])
        ELSE LET ptr == block_to_ptr(block_num, blk_len)
             IN  IF ptr = NULL
                 THEN Res(f, m, [c EXCEPT !.n16 = blk_len, !.checked = TRUE, !.ptr = ptr,
                                          !.status = "raise"])
                 ELSE Res(f, MemcpyIn(m, ptr, buf, BLOCK_SIZE),
                          [c EXCEPT !.n16 = blk_len, !.checked = TRUE, !.ptr = ptr, !.off = ptr,
                                    !.len = BLOCK_SIZE, !.status = "ret", !.ret = 0])

psram_writeblocks(f, m, block_num_in, buf, buflen) ==
    LET block_num == block_num_in
        blk_len == U16(buflen \div BLOCK_SIZE)
        c == [Call EXCEPT !.fn = "psram_writeblocks", !.blk = block_num, !.buf = buf,
                          !.num = buflen \div BLOCK_SIZE, !.arg = <<buflen>>]
    IN  IF blk_len < 1 THEN Res(f, m, [c EXCEPT !.status = "raise"])
        ELSE IF UMul(blk_len, BLOCK_SIZE) # buflen THEN Res(f, m, [c EXCEPT !.status = "raise"])
        ELSE LET ptr == block_to_ptr(block_num, blk_len)
             IN  IF ptr = NULL
                 THEN Res(f, m, [c EXCEPT !.n16 = blk_len, !.checked = TRUE,
                                          !.ptr = ptr, !.status = "raise"])
                 ELSE Res(f, MemcpyIn(m, ptr, buf, buflen),
                          [c EXCEPT !.n16 = blk_len, !.checked = TRUE,
                                    !.ptr = ptr, !.off = ptr, !.len = buflen,
                                    !.status = "ret", !.ret = 0])

\* num_blocks is 32 bits wide and block_to_ptr takes 16 of them.  A copy that runs
\* past the end of the region is undefined: ub is what the hardware makes of it,
\* "ret" (the copy completes) or "fault" (the access past the mapping stops the CPU).
direct_psram_read_blocks(f, m, block_num, num_blocks, ub) ==
    LET ptr == block_to_ptr(block_num, U16(num_blocks))
        n == UMul(num_blocks, BLOCK_SIZE)
        c == [Call EXCEPT !.fn = "direct_psram_read_blocks", !.blk = block_num,
                          !.num = num_blocks, !.n16 = U16(num_blocks),
                          !.checked = TRUE, !.ptr = ptr]
    IN  IF ptr = NULL THEN Res(f, m, [c EXCEPT !.status = "ret", !.ret = -MP_EIO])
        ELSE Res(f, m, [c EXCEPT !.off = ptr, !.len = n, !.out = MemcpyOut(m, ptr, n),
                                 !.status = IF Outside(ptr, n) THEN ub ELSE "ret",
                                 !.ret = 0])

direct_psram_write_blocks(f, m, buf, block_num, num_blocks, ub) ==
    LET ptr == block_to_ptr(block_num, U16(num_blocks))
        n == UMul(num_blocks, BLOCK_SIZE)
        c == [Call EXCEPT !.fn = "direct_psram_write_blocks", !.blk = block_num, !.buf = buf,
                          !.num = num_blocks, !.n16 = U16(num_blocks),
                          !.checked = TRUE, !.ptr = ptr]
    IN  IF ptr = NULL THEN Res(f, m, [c EXCEPT !.status = "ret", !.ret = -MP_EIO])
        ELSE Res(f, MemcpyIn(m, ptr, buf, n),
                 [c EXCEPT !.off = ptr, !.len = n,
                           !.status = IF Outside(ptr, n) THEN ub ELSE "ret",
                           !.ret = 0])

psram_ioctl(f, m, cmd, arg_in) ==
    LET c == [Call EXCEPT !.fn = "psram_ioctl", !.arg = <<cmd, arg_in>>]
    IN  IF cmd \in {MP_BLOCKDEV_IOCTL_INIT, MP_BLOCKDEV_IOCTL_DEINIT, MP_BLOCKDEV_IOCTL_SYNC}
        THEN Res(f, m, [c EXCEPT !.status = "ret", !.ret = 0])
        ELSE IF cmd = MP_BLOCKDEV_IOCTL_BLOCK_COUNT
        THEN Res(f, m, [c EXCEPT !.status = "ret", !.ret = BLOCK_COUNT])
        ELSE IF cmd = MP_BLOCKDEV_IOCTL_BLOCK_SIZE
        THEN Res(f, m, [c EXCEPT !.status = "ret", !.ret = BLOCK_SIZE])
        ELSE IF cmd = MP_BLOCKDEV_IOCTL_BLOCK_ERASE
        THEN LET block_num == arg_in
                 ptr == block_to_ptr(block_num, 1)
             IN  IF ptr = NULL
                 THEN Res(f, m, [c EXCEPT !.blk = block_num, !.num = 1, !.n16 = 1, !.checked = TRUE,
                                          !.ptr = ptr,
                                          !.status = "none"])
                 ELSE Res(f, Memset(m, ptr, ERASE_BYTE, BLOCK_SIZE),
                          [c EXCEPT !.blk = block_num, !.num = 1, !.n16 = 1, !.checked = TRUE,
                                    !.ptr = ptr,
                                    !.off = ptr, !.len = BLOCK_SIZE,
                                    !.status = "ret", !.ret = 0])
        ELSE Res(f, m, [c EXCEPT !.status = "none"])

\* ------------------------------------------------------------ format and seed

\* disk_write of the filesystem library: one sector from the library's buffer
\* (buffer 0), through the entry installed as vfs->blockdev.writeblocks[2]
vfs_writeblocks(m, sector) == direct_psram_write_blocks(0, m, 0, sector, 1, "ret").mem

\* res is what the library answers: <<f_mkfs, f_open, f_write, f_open, f_write>>.
\* Of the volume the library lays down, the boot sector is kept.
psram_wipe_and_setup(f, m, res) ==
    LET c == [Call EXCEPT !.fn = "psram_wipe_and_setup", !.arg = res,
                          !.off = 0, !.len = UMul(BLOCK_COUNT, BLOCK_SIZE)]
    IN  IF res[1] # FR_OK THEN Res(f, Wiped, [c EXCEPT !.status = "raise"])
        ELSE Res(f, vfs_writeblocks(Wiped, 0),
                 [c EXCEPT !.opened = res[2] = FR_OK \/ res[4] = FR_OK, !.closed = TRUE,
                           !.status = "none"])

\* ------------------------------------------------------------ cluster ranges

\* fs is the mounted volume: n_fatent, database (first data sector), csize
clst2sect(fs, clst_in) ==
    LET clst == UAdd(clst_in, -2)
    IN  IF UGe(clst, fs.n_fatent - 2) THEN 0
        ELSE UAdd(fs.database, UMul(clst, fs.csize))

RECURSIVE mmap_pairs(_, _, _, _)
\* the loop of psram_mmap_file from pair i on: what it prints for each pair
mmap_pairs(fs, mapping, i, num_used) ==
    IF i >= num_used THEN <<>>
    ELSE LET num_clusters == mapping[2 * i + 2]
             cluster == mapping[2 * i + 3]
         IN  <<[cl |-> cluster, ln |-> num_clusters, sect |-> clst2sect(fs, cluster)]>>
             \o mmap_pairs(fs, mapping, i + 1, num_used)

\* psram_mmap_file going on after a failed f_lseek with the pairs that did fit
psram_mmap_file_truncating(f, m, fs, res, mapping) ==
    LET c == [Call EXCEPT !.fn = "psram_mmap_file", !.arg = res]
    IN  IF res[1] # FR_OK THEN Res(f, m, [c EXCEPT !.status = "raise"])
        ELSE IF res[2] # FR_OK THEN Res(f, m, [c EXCEPT !.status = "raise"])
        ELSE LET num_used == Min((mapping[1] - 1) \div 2, (Len(mapping) - 1) \div 2)
             IN  Res(f, m, [c EXCEPT !.opened = TRUE, !.closed = TRUE, !.map = mapping,
                                     !.printed = mmap_pairs(fs, mapping, 0, num_used),
                                     !.status = "none"])

\* res is what the library answers: <<f_mount, f_open, f_lseek>>; mapping is the
\* link map f_lseek leaves in mapping[] (mapping[i + 1] here is the code's mapping[i]).
\* The pairs go to the console; the caller receives mp_const_none.
psram_mmap_file(f, m, fs, res, mapping) ==
    LET c == [Call EXCEPT !.fn = "psram_mmap_file", !.arg = res]
    IN  IF res[1] # FR_OK THEN Res(f, m, [c EXCEPT !.status = "raise"])
        ELSE IF res[2] # FR_OK THEN Res(f, m, [c EXCEPT !.status = "raise"])
        ELSE IF res[3] # FR_OK
        THEN Res(f, m, [c EXCEPT !.opened = TRUE, !.map = mapping, !.status = "raise"])
        ELSE LET num_used == (mapping[1] - 1) \div 2
             IN  Res(f, m, [c EXCEPT !.opened = TRUE, !.closed = TRUE, !.map = mapping,
                                     !.printed = mmap_pairs(fs, mapping, 0, num_used),
                                     !.status = "none"])

\* ------------------------------------------------------------ inputs

LUNs == 0 .. MaxLun

Bufs == 1 .. NumBufs

\* <<block index, block count>>: each side of each bound of the validator
Reqs ==
    { <<0, 0>>, <<16383, 0>>, <<16384, 0>>,
      <<0, 1>>, <<15872, 1>>,
      <<0, 31>>, <<512, 31>>,
      <<0, 32>>, <<0, 65535>>, <<-1, 1>> }

\* reads also try the last index that is accepted with 1 block and with 31 blocks
ReadReqs == Reqs \cup { <<15871, 1>>, <<511, 31>> }

\* <<block index, buffer length>>
OddLens ==
    { <<0, 1000>>, <<0, 65536 * BLOCK_SIZE>>, <<0, 65537 * BLOCK_SIZE>>,
      <<0, 65536 * BLOCK_SIZE + 1000>>, <<0, 65537 * BLOCK_SIZE + 1000>> }

BlockReqs == { <<r[1], r[2] * BLOCK_SIZE>> : r \in Reqs } \cup OddLens

BlockReadReqs == { <<r[1], r[2] * BLOCK_SIZE>> : r \in ReadReqs } \cup OddLens

\* <<block index, 32-bit block count>>
WideReqs == { <<16383, 65536>>, <<16384, 65536>>, <<16383, 65537>> }

DirectReqs == Reqs \cup WideReqs

DirectReadReqs == ReadReqs \cup WideReqs

InquiryParams ==
    { <<18, 1, pg, 0, 0>> : pg \in {0, 131, 1} }
        \cup { <<18, 0, 0, a[1], a[2]>> :
                 a \in { <<0, 0>>, <<0, 5>>, <<0, 36>>, <<0, 255>>, <<1, 0>>, <<255, 255>> } }

IoctlReqs ==
    { <<cmd, 0>> : cmd \in MP_BLOCKDEV_IOCTL_INIT .. MP_BLOCKDEV_IOCTL_BLOCK_ERASE + 1 }
        \cup { <<MP_BLOCKDEV_IOCTL_BLOCK_ERASE, i>> : i \in {15872, -1} }

\* f_write on a file that did not open fails too
FileResults == { <<FR_OK, FR_OK>>, <<FR_OK, FR_DISK_ERR>>, <<FR_DISK_ERR, FR_DISK_ERR>> }

FormatResults ==
    { <<FR_DISK_ERR, FR_OK, FR_OK, FR_OK, FR_OK>> }
        \cup { <<FR_OK, a[1], a[2], b[1], b[2]>> : a \in FileResults, b \in FileResults }

\* the volume f_mkfs lays down on 16384 sectors of 512 bytes, one sector a cluster
Volume == [n_fatent |-> 16288, database |-> 98, csize |-> 1]

\* mapping[] after f_lseek met a chain of 32 fragments: slot 0 holds the 66 slots
\* the chain needs, the slots after it the pairs that were stored
OverflowMap == <<66>> \o [i \in 1 .. 63 |-> IF i % 2 = 1 THEN 1 ELSE 2 * i]

\* <<results, link map>>
MmapReqs ==
    { <<<<FR_DISK_ERR, FR_OK, FR_OK>>, <<64>>>>,
      <<<<FR_OK, FR_DISK_ERR, FR_OK>>, <<64>>>>,
      <<<<FR_OK, FR_OK, FR_NOT_ENOUGH_CORE>>, OverflowMap>>,
      <<<<FR_OK, FR_OK, FR_OK>>, <<2, 0>>>>,
      <<<<FR_OK, FR_OK, FR_OK>>, <<4, 1, 2, 0>>>>,
      <<<<FR_OK, FR_OK, FR_OK>>, <<6, 2, 2, 1, 9, 0>>>> }

\* what the hardware makes of a copy that leaves the region
Undefined == {"ret", "fault"}

\* ------------------------------------------------------------ actions

WriteFns == {"psram_msc_Write", "psram_writeblocks", "direct_psram_write_blocks"}

ReadFns == {"psram_msc_Read", "psram_readblocks", "direct_psram_read_blocks"}

\* a write that succeeded and copied the whole of what the caller handed over
GoodWrite(c) ==
    c.fn \in WriteFns /\ c.status = "ret" /\ c.ret = 0 /\ c.num = c.n16

NextWritten(c) ==
    IF GoodWrite(c) THEN <<c.blk, c.num, c.buf, c.fn>>
    ELSE IF c.fn \in WriteFns \cup {"psram_ioctl", "psram_wipe_and_setup"} /\ c.len # 0
    THEN NoWrite
    ELSE written

NextStartedBy(c) ==
    IF c.fn = "psram_msc_Init" /\ c.lun = 0 THEN "on"
    ELSE IF c.fn = "psram_msc_StartStopUnit" /\ c.lun = 0
    THEN (IF c.arg[1] # 0 THEN "on" ELSE "off")
    ELSE started_by

\* a handler runs when the caller has taken the result of the call before
Step(r) ==
    /\ last = Call
    /\ psram_msc_lu_flags' = r.flags
    /\ psram' = r.mem
    /\ last' = r.call
    /\ started_by' = NextStartedBy(r.call)
    /\ written' = NextWritten(r.call)

\* psram_init() at boot: the flags word is zeroed static storage
Init ==
    \E res \in FormatResults :
        LET r == psram_wipe_and_setup(0, Wiped, res)
        IN  /\ psram_msc_lu_flags = 0
            /\ psram = r.mem
            /\ last = [r.call EXCEPT !.fn = "psram_init", !.status = "none"]
            /\ started_by = "none"
            /\ written = NoWrite

MscInit == \E lun \in LUNs : Step(psram_msc_Init(psram_msc_lu_flags, psram, lun))

MscInquiry ==
    \E lun \in LUNs, params \in InquiryParams :
        Step(psram_msc_Inquiry(psram_msc_lu_flags, psram, lun, params))

MscGetCapacity == \E lun \in LUNs : Step(psram_msc_GetCapacity(psram_msc_lu_flags, psram, lun))

MscIsReady == \E lun \in LUNs : Step(psram_msc_IsReady(psram_msc_lu_flags, psram, lun))

MscIsWriteProtected ==
    \E lun \in LUNs : Step(psram_msc_IsWriteProtected(psram_msc_lu_flags, psram, lun))

MscStartStopUnit ==
    \E lun \in LUNs, started \in {0, 1, 255} :
        Step(psram_msc_StartStopUnit(psram_msc_lu_flags, psram, lun, started))

MscPreventAllowMediumRemoval ==
    \E lun \in LUNs, param \in {0, 1} :
        Step(psram_msc_PreventAllowMediumRemoval(psram_msc_lu_flags, psram, lun, param))

MscRead ==
    \E lun \in LUNs, r \in ReadReqs :
        Step(psram_msc_Read(psram_msc_lu_flags, psram, lun, r[1], r[2]))

MscWrite ==
    \E lun \in LUNs, buf \in Bufs, r \in Reqs :
        Step(psram_msc_Write(psram_msc_lu_flags, psram, lun, buf, r[1], r[2]))

MscGetMaxLun == Step(psram_msc_GetMaxLun(psram_msc_lu_flags, psram))

ReadBlocks ==
    \E r \in BlockReadReqs : Step(psram_readblocks(psram_msc_lu_flags, psram, r[1], r[2]))

WriteBlocks ==
    \E buf \in Bufs, r \in BlockReqs :
        Step(psram_writeblocks(psram_msc_lu_flags, psram, r[1], buf, r[2]))

DirectRead ==
    \E r \in DirectReadReqs, ub \in Undefined :
        Step(direct_psram_read_blocks(psram_msc_lu_flags, psram, r[1], r[2], ub))

DirectWrite ==
    \E buf \in Bufs, r \in DirectReqs, ub \in Undefined :
        Step(direct_psram_write_blocks(psram_msc_lu_flags, psram, buf, r[1], r[2], ub))

Ioctl == \E r \in IoctlReqs : Step(psram_ioctl(psram_msc_lu_flags, psram, r[1], r[2]))

WipeAndSetup ==
    \E res \in FormatResults : Step(psram_wipe_and_setup(psram_msc_lu_flags, psram, res))

MmapFile ==
    \E r \in MmapReqs : Step(psram_mmap_file(psram_msc_lu_flags, psram, Volume, r[1], r[2]))

\* the caller takes the result; after a fault there is no caller left
Return ==
    /\ last # Call
    /\ Running
    /\ last' = Call
    /\ UNCHANGED <<psram_msc_lu_flags, psram, started_by, written>>

Next ==
    \/ Return
    \/ MscInit
    \/ MscInquiry
    \/ MscGetCapacity
    \/ MscIsReady
    \/ MscIsWriteProtected
    \/ MscStartStopUnit
    \/ MscPreventAllowMediumRemoval
    \/ MscRead
    \/ MscWrite
    \/ MscGetMaxLun
    \/ ReadBlocks
    \/ WriteBlocks
    \/ DirectRead
    \/ DirectWrite
    \/ Ioctl
    \/ WipeAndSetup
    \/ MmapFile

Spec == Init /\ [][Next]_vars

\* ------------------------------------------------------------ claims

\* C1: every copy or fill that an entry point performs on the region covers only
\* byte offsets inside [0, BLOCK_COUNT * BLOCK_SIZE), whatever block index and
\* block count the entry point's parameters admit.
C1_CopiesStayInsideRegion == last.len # 0 => ~Outside(last.off, last.len)

\* the call in last reads the block range of the last successful write
ReadsWritten ==
    /\ written # NoWrite
    /\ last.fn \in ReadFns
    /\ last.blk = written[1]
    /\ last.num = written[2]
    /\ last.fn = "psram_msc_Read" => last.lun = 0
    /\ last.fn = "psram_readblocks" => last.arg[1] = last.num * BLOCK_SIZE

\* the read in last succeeded and delivered the bytes of the last successful write
DeliversWritten ==
    /\ last.status = "ret"
    /\ last.ret = 0
    /\ last.out = [i \in 1 .. written[2] |-> BufBlock(written[3], i - 1)]
    /\ \A i \in 0 .. written[2] * BLOCK_SIZE - 1 :
           ByteOf(last.out[i \div BLOCK_SIZE + 1], i % BLOCK_SIZE) = BufByte(written[3], i)

\* C2 (as claimed): a successful write of P to a range the validator accepts,
\* followed by a read of the same range with no write, erase or wipe in between,
\* succeeds and returns exactly P, whichever write and read entry points are used.
C2_WriteThenReadAnyCount == ReadsWritten => DeliversWritten

\* C2 (amended): the same for every accepted range of at least one block.
C2_WriteThenRead == ReadsWritten /\ written[2] >= 1 => DeliversWritten

C2_Witness ==
    /\ ReadsWritten
    /\ written[2] = 31
    /\ written[4] = "direct_psram_write_blocks"
    /\ last.fn = "psram_readblocks"
    /\ DeliversWritten

\* a read, write or erase request that was refused
Rejected(c) ==
    \/ c.fn \in {"psram_msc_Read", "psram_msc_Write"} /\ c.ret < 0
    \/ c.fn \in {"psram_readblocks", "psram_writeblocks"} /\ c.status = "raise"
    \/ c.fn \in {"direct_psram_read_blocks", "direct_psram_write_blocks"} /\ c.ret < 0
    \/ c.fn = "psram_ioctl" /\ c.arg[1] = MP_BLOCKDEV_IOCTL_BLOCK_ERASE /\ c.status = "none"

\* C3: a read, write or erase request that is rejected leaves every byte of the
\* region unchanged and copies nothing into the caller's buffer.
C3_RejectedTouchesNothing ==
    [][Rejected(last') => psram' = psram /\ last'.out = <<>> /\ last'.len = 0]_vars

C3_Witness ==
    /\ last.fn = "psram_msc_Write"
    /\ last.lun = 0
    /\ last.checked
    /\ Rejected(last)
    /\ written # NoWrite

\* C4: is_ready(0) reports ready exactly when the most recent of init(0) and
\* start_stop(0, s) set started to true, and not-ready before any of them.
C4_ReadyFollowsStartStop ==
    last.fn = "psram_msc_IsReady" /\ last.lun = 0 =>
        /\ started_by = "on" => last.ret = 0
        /\ started_by # "on" => last.ret = -1

C4_Witness ==
    /\ last.fn = "psram_msc_IsReady"
    /\ last.lun = 0
    /\ started_by = "off"
    /\ last.ret = -1

UnitFns ==
    { "psram_msc_Init", "psram_msc_Inquiry", "psram_msc_GetCapacity", "psram_msc_IsReady",
      "psram_msc_IsWriteProtected", "psram_msc_StartStopUnit",
      "psram_msc_PreventAllowMediumRemoval", "psram_msc_Read", "psram_msc_Write" }

\* C5: every SCSI operation that takes a unit index, called with a unit index
\* other than 0, returns a negative result and leaves the flags word and the
\* region unchanged.
C5_OtherUnitsFail ==
    [][last'.fn \in UnitFns /\ last'.lun # 0 =>
          /\ last'.ret < 0
          /\ psram_msc_lu_flags' = psram_msc_lu_flags
          /\ psram' = psram]_vars

\* C6: wipe_and_format returns normally only if the make-filesystem call and the
\* open and write of both identity files all succeeded.
C6_FormatReportsFailures ==
    last.fn = "psram_wipe_and_setup" /\ last.status = "none" =>
        \A i \in 1 .. Len(last.arg) : last.arg[i] = FR_OK

\* C7: in psram_mmap_file a file that was opened is closed before the operation
\* ends, on every exit path.
C7_FileClosedOnEveryPath == last.fn = "psram_mmap_file" /\ last.opened => last.closed

\* C8: a standard inquiry on unit 0 returns the first min(36, A) bytes of the
\* inquiry payload and reports length min(36, A), A being the 16-bit allocation
\* length in request bytes 3 (high) and 4 (low).
C8_InquiryTruncation ==
    last.fn = "psram_msc_Inquiry" /\ last.lun = 0 /\ last.arg[2] % 2 = 0 =>
        LET A == last.arg[4] * 256 + last.arg[5]
            n == IF A < 36 THEN A ELSE 36
        IN  /\ last.ret = n
            /\ last.out = [i \in 1 .. n |-> psram_msc_inquiry_data[i]]

\* C9: block_to_ptr(block_index, block_count) succeeds exactly when
\* block_index < BLOCK_COUNT and block_index + block_count * BLOCK_SIZE < BLOCK_COUNT,
\* and then returns byte offset block_index * BLOCK_SIZE; otherwise it fails.
C9_ValidatorBound ==
    last.checked =>
        IF /\ last.blk >= 0
           /\ last.blk < BLOCK_COUNT
           /\ last.blk + last.n16 * BLOCK_SIZE < BLOCK_COUNT
        THEN last.ptr = last.blk * BLOCK_SIZE
        ELSE last.ptr = NULL

C9_Witness ==
    /\ last.checked
    /\ last.blk = 511
    /\ last.n16 = 31
    /\ last.ptr = 511 * BLOCK_SIZE

\* C10: control(erase_block, i) on a block that passes the validator as a
\* one-block range turns all 512 bytes of block i into 0xFF, leaves every byte
\* outside block i unchanged and returns 0; on a block that fails the validator
\* it changes no byte and returns the none value.
C10_EraseBlock ==
    [][last'.fn = "psram_ioctl" /\ last'.arg[1] = MP_BLOCKDEV_IOCTL_BLOCK_ERASE =>
          LET i == last'.arg[2]
          IN  IF block_to_ptr(i, 1) # NULL
              THEN /\ last'.status = "ret"
                   /\ last'.ret = 0
                   /\ \A j \in 0 .. BLOCK_SIZE - 1 :
                          RegionByte(psram', i * BLOCK_SIZE + j) = 255
                   /\ \A b \in (DOMAIN psram \cup DOMAIN psram') \ {i} :
                          ReadBlock(psram', b) = ReadBlock(psram, b)
              ELSE /\ psram' = psram
                   /\ last'.status = "none"]_vars

C10_Witness ==
    /\ last.fn = "psram_ioctl"
    /\ last.arg = <<MP_BLOCKDEV_IOCTL_BLOCK_ERASE, 0>>
    /\ last.status = "ret"
    /\ ReadBlock(psram, 0) = Fill(255)
    /\ ReadBlock(psram, 1) = BufBlock(1, 1)

BlockFns == {"psram_readblocks", "psram_writeblocks"}

\* C11: read_blocks and write_blocks raise the invalid-argument error without
\* copying a byte for every buffer length that is 0 or not a multiple of 512, also
\* where the length holds 65536 blocks or more; for a positive multiple of 512 a
\* call that succeeds copies exactly as many bytes as the buffer is long.
C11_BufferLengths ==
    [][last'.fn \in BlockFns =>
          LET buflen == last'.arg[1]
              first == last'.off \div BLOCK_SIZE
          IN  IF buflen = 0 \/ buflen % BLOCK_SIZE # 0
              THEN /\ last'.status = "raise"
                   /\ psram' = psram
                   /\ last'.out = <<>>
                   /\ last'.len = 0
              ELSE last'.status = "ret" =>
                       /\ last'.len = buflen
                       /\ last'.fn = "psram_readblocks" =>
                              /\ Len(last'.out) * BLOCK_SIZE = buflen
                              /\ \A i \in 1 .. Len(last'.out) :
                                     last'.out[i] = ReadBlock(psram, first + i - 1)
                       /\ last'.fn = "psram_writeblocks" =>
                              \A i \in 0 .. buflen \div BLOCK_SIZE - 1 :
                                  ReadBlock(psram', first + i) = BufBlock(last'.buf, i)]_vars

C11_Witness ==
    /\ last.fn = "psram_writeblocks"
    /\ last.arg = <<65536 * BLOCK_SIZE + 1000>>
    /\ last.status = "raise"
    /\ written # NoWrite

Failed(c) == c.status = "raise" \/ (c.status = "ret" /\ c.ret < 0)

Succeeded(c) == c.status = "ret" /\ c.ret = 0

\* two results of the same request: both are failures, or both are successes with
\* the same bytes delivered and the same region left behind
Agree(a, b) ==
    \/ Failed(a.call) /\ Failed(b.call)
    \/ /\ Succeeded(a.call)
       /\ Succeeded(b.call)
       /\ a.call.out = b.call.out
       /\ a.mem = b.mem

\* C12: on the same region, block index and block count >= 1, the three read entry
\* points (SCSI read on unit 0, read_blocks with a buffer of block_count * 512
\* bytes, direct_psram_read_blocks) all fail or all succeed with the same bytes,
\* and the three write entry points all fail or all succeed with the same region,
\* for every block count the direct variant's 32-bit parameter admits (the SCSI
\* handlers take part where the count fits their 16-bit parameter).
C12_EntryPointsAgree ==
    \A r \in DirectReqs, buf \in Bufs, ub \in Undefined :
        r[2] >= 1 =>
            LET f == psram_msc_lu_flags
                dr == direct_psram_read_blocks(f, psram, r[1], r[2], ub)
                br == psram_readblocks(f, psram, r[1], r[2] * BLOCK_SIZE)
                sr == psram_msc_Read(f, psram, 0, r[1], r[2])
                dw == direct_psram_write_blocks(f, psram, buf, r[1], r[2], ub)
                bw == psram_writeblocks(f, psram, r[1], buf, r[2] * BLOCK_SIZE)
                sw == psram_msc_Write(f, psram, 0, buf, r[1], r[2])
            IN  /\ Agree(dr, br)
                /\ Agree(dw, bw)
                /\ r[2] < 65536 => Agree(sr, br) /\ Agree(sw, bw)

\* C13: when f_lseek reports that the cluster chain does not fit mapping[], the
\* resolver raises to its caller and puts out no physical range for the file.
C13_ChainOverflowReported ==
    /\ last.fn = "psram_mmap_file"
    /\ last.arg[1] = FR_OK
    /\ last.arg[2] = FR_OK
    /\ last.arg[3] = FR_NOT_ENOUGH_CORE
    => /\ last.status = "raise"
       /\ last.out = <<>>
       /\ last.printed = <<>>

C13_Witness ==
    /\ last.fn = "psram_mmap_file"
    /\ last.arg[3] = FR_NOT_ENOUGH_CORE
    /\ last.map[1] = 66
    /\ last.status = "raise"

\* the PhysicalRange values of link map map: one for each of its
\* (map[0] - 1) / 2 pairs (run_length, start_cluster), in order
PhysicalRanges(fs, map) ==
    [i \in 1 .. (map[1] - 1) \div 2 |->
        [sector |-> fs.database + fs.csize * (map[2 * i + 1] - 2), length |-> map[2 * i]]]

\* C14: on success the resolver delivers to its caller exactly
\* num_pairs = (slots_used - 1) / 2 PhysicalRange values, one for each pair of the
\* link map in order, each (data_area_start + cluster_size * (start_cluster - 2),
\* run_length); one range at data_area_start for a single-cluster file.
C14_RangesDelivered ==
    last.fn = "psram_mmap_file" /\ last.arg = <<FR_OK, FR_OK, FR_OK>> =>
        /\ last.status # "raise"
        /\ last.out = PhysicalRanges(Volume, last.map)

\* C15: prevent_removal(0, p) returns success and leaves the flags word and every
\* byte of the region unchanged, for every p, in every reachable state.
C15_PreventRemovalFrame ==
    [][last'.fn = "psram_msc_PreventAllowMediumRemoval" /\ last'.lun = 0 =>
          /\ last'.status = "ret"
          /\ last'.ret = 0
          /\ psram_msc_lu_flags' = psram_msc_lu_flags
          /\ psram' = psram]_vars

C15_Witness ==
    /\ last.fn = "psram_msc_PreventAllowMediumRemoval"
    /\ last.lun = 0
    /\ last.arg = <<0>>
    /\ psram_msc_lu_flags = FLAGS_STARTED
    /\ written # NoWrite

FlagFns == {"psram_msc_Init", "psram_msc_StartStopUnit"}

\* C16: the flags word is changed only by the SCSI init and start_stop handlers;
\* every other operation leaves it unchanged, and start_stop(0, s) changes only the
\* STARTED bit of unit 0, whatever the flags word held, and leaves READ_ONLY as
\* it was.
C16_FlagsFrame ==
    [][/\ psram_msc_lu_flags' # psram_msc_lu_flags => last'.fn \in FlagFns
       /\ last'.fn = "psram_msc_StartStopUnit" /\ last'.lun = 0 =>
              \A f \in 0 .. 15 :
                  LET g == psram_msc_StartStopUnit(f, psram, 0, last'.arg[1]).flags
                  IN  /\ g \div 2 = f \div 2
                      /\ g % 2 = (IF last'.arg[1] # 0 THEN 1 ELSE 0)
                      /\ f = psram_msc_lu_flags => g = psram_msc_lu_flags']_vars

C16_Witness ==
    /\ last.fn = "psram_msc_StartStopUnit"
    /\ last.lun = 0
    /\ last.arg = <<0>>
    /\ started_by = "off"
    /\ psram_msc_lu_flags = 0
    /\ written # NoWrite

\* C17: the reported geometry is the same in every reachable state: max_lun()
\* returns 0, get_capacity returns (16384, 512), control(block_count) returns
\* 16384 and control(block_size) 512, whatever the flags and whatever was read,
\* written, erased or formatted before.
C17_ConstantGeometry ==
    /\ last.fn = "psram_msc_GetMaxLun" => last.status = "ret" /\ last.ret = 0
    /\ last.fn = "psram_msc_GetCapacity" =>
           last.status = "ret" /\ last.ret = 0 /\ last.out = <<16384, 512>>
    /\ last.fn = "psram_ioctl" /\ last.arg[1] = MP_BLOCKDEV_IOCTL_BLOCK_COUNT =>
           last.status = "ret" /\ last.ret = 16384
    /\ last.fn = "psram_ioctl" /\ last.arg[1] = MP_BLOCKDEV_IOCTL_BLOCK_SIZE =>
           last.status = "ret" /\ last.ret = 512

C17_Witness ==
    /\ last.fn = "psram_msc_GetCapacity"
    /\ last.lun = 0
    /\ last.out = <<16384, 512>>
    /\ started_by = "off"
    /\ ReadBlock(psram, 0) = Fill(ERASE_BYTE)
    /\ ReadBlock(psram, 1) = BufBlock(2, 1)

\* the entry points whose block count is 16 bits wide
NarrowFns ==
    {"psram_msc_Read", "psram_msc_Write", "psram_readblocks", "psram_writeblocks", "psram_ioctl"}

\* C18: through the SCSI read and write, read_blocks, write_blocks and the erase,
\* no accepted request of at least one block spans more than 31 blocks or touches
\* a block with index 15872 or more, and every such operation leaves the bytes of
\* blocks 15872..16383 as they were.
C18_HighBlocksOutOfReach ==
    [][last'.fn \in NarrowFns =>
          /\ \A b \in DOMAIN psram \cup DOMAIN psram' :
                 b >= 15872 => ReadBlock(psram', b) = ReadBlock(psram, b)
          /\ last'.checked /\ last'.ptr # NULL /\ last'.n16 >= 1 =>
                 /\ last'.n16 <= 31
                 /\ last'.len = last'.n16 * BLOCK_SIZE
                 /\ \A b \in Touched(last'.off, last'.len) : b >= 0 /\ b < 15872]_vars

C18_Witness ==
    /\ last.fn = "psram_msc_Write"
    /\ last.ret = 0
    /\ last.n16 = 31
    /\ ReadBlock(psram, 30) = BufBlock(last.buf, 30)
    /\ ReadBlock(psram, 16383) = BufBlock(1, 0)
    /\ ReadBlock(psram, 15872) = Fill(WIPE_BYTE)

\* C19: no operation sets the READ_ONLY flag: the flags word is 0 or 1 in every
\* reachable state, is_write_protected(0) returns 0, and a SCSI write to a range
\* the validator accepts on unit 0 is never rejected.
C19_NeverReadOnly ==
    /\ psram_msc_lu_flags \in {0, FLAGS_STARTED}
    /\ last.fn = "psram_msc_IsWriteProtected" /\ last.lun = 0 =>
           last.status = "ret" /\ last.ret = 0
    /\ last.fn = "psram_msc_Write" /\ last.lun = 0 /\ block_to_ptr(last.blk, last.num) # NULL =>
           last.status = "ret" /\ last.ret = 0

C19_Witness ==
    /\ last.fn = "psram_msc_IsWriteProtected"
    /\ last.lun = 0
    /\ last.ret = 0
    /\ started_by = "on"
    /\ psram_msc_lu_flags = FLAGS_STARTED
    /\ written # NoWrite

\* C20: the outcome of the SCSI read and write does not depend on the flags word:
\* the same request on the same region under any other flags of the unit returns
\* the same status and bytes and leaves the same region; a write of at least one
\* block to an accepted range succeeds and puts the buffer into the region also
\* while is_ready(0) reports not-ready.
C20_FlagsDoNotMatter ==
    [][/\ last'.fn = "psram_msc_Read" =>
              \A f \in 0 .. 3 :
                  LET r == psram_msc_Read(f, psram, last'.lun, last'.blk, last'.num)
                  IN  r.call = last' /\ r.mem = psram' /\ r.flags = f
       /\ last'.fn = "psram_msc_Write" =>
              \A f \in 0 .. 3 :
                  LET r == psram_msc_Write(f, psram, last'.lun, last'.buf, last'.blk, last'.num)
                  IN  r.call = last' /\ r.mem = psram' /\ r.flags = f
       /\ /\ last'.fn = "psram_msc_Write"
          /\ last'.lun = 0
          /\ last'.num >= 1
          /\ block_to_ptr(last'.blk, last'.num) # NULL
          /\ psram_msc_IsReady(psram_msc_lu_flags, psram, 0).call.ret # 0
          => /\ last'.ret = 0
             /\ \A i \in 0 .. last'.num - 1 :
                    ReadBlock(psram', last'.blk + i) = BufBlock(last'.buf, i)]_vars

C20_Witness ==
    /\ last.fn = "psram_msc_Write"
    /\ last.lun = 0
    /\ last.n16 = 31
    /\ last.ret = 0
    /\ started_by = "off"
    /\ psram_msc_lu_flags = 0
    /\ ReadBlock(psram, 30) = BufBlock(last.buf, 30)

====
